---- MODULE Spec2Model ----
(***************************************************************************)
(* Driver characterization sweep engine of ucieanalog                      *)
(* (src/src/driver/tb.rs): the thermometer coder, the DriverAcTb           *)
(* testbench length checks, the dispatch loop of simulate_driver, the job  *)
(* threads and the join/aggregation loop; the RingOscillator of            *)
(* src/uciephy/src/vco/mod.rs and the control-port wiring of the           *)
(* HorizontalDriver of src/src/driver/mod.rs.                              *)
(*                                                                         *)
(* Vectors are TLA+ sequences, so the 0-based index k of the source is     *)
(* position k + 1 here.  A Decimal is modelled by its integer number of    *)
(* smallest representable steps.                                           *)
(***************************************************************************)
EXTENDS Integers, Sequences, FiniteSets, TLC

\* ---------------------------------------------------------------- bounds
MaxPu == 2
MaxPd == 2
MaxSweep == 3
MaxJobs == 8
MaxBits == 6
MaxSamples == 2
MaxZ == 2
MaxR == 3
MaxB == 2
MaxStages == 11
MaxSegments == 5
MaxBanks == 5

\* PVT supply voltages tried, in Decimal steps (0, an odd value, 1.8)
Voltages == {0, 5, 18}

\* how Decimal division settles a quotient that is not representable
RoundModes == {"down", "half_up"}

\* whether the simulator returns the same frequency points for every job of
\* a run, or points that differ from job to job
SimModes == {"shared_freq", "job_freq"}

\* ------------------------------------------------------- pure functions
RECURSIVE Repeat(_, _)
Repeat(val, n) == IF n <= 0 THEN <<>> ELSE Append(Repeat(val, n - 1), val)

\* Vec::resize(new_len, value): truncate or pad with value
Resize(v, new_len, val) ==
    IF new_len <= Len(v) THEN SubSeq(v, 1, new_len)
    ELSE v \o Repeat(val, new_len - Len(v))

PanicResult == [ok |-> FALSE, mask |-> <<>>]

code_to_thermometer_no_assert(code, bits) ==
    LET out1 == Resize(<<>>, code, TRUE)
        out2 == Resize(out1, bits, FALSE)
    IN  IF Len(out2) = bits THEN [ok |-> TRUE, mask |-> out2] ELSE PanicResult

code_to_thermometer_off_by_one(code, bits) ==
    IF ~(code <= bits) THEN PanicResult
    ELSE LET out1 == Resize(<<>>, code + 1, TRUE)
             out2 == Resize(out1, bits, FALSE)
         IN  IF Len(out2) = bits THEN [ok |-> TRUE, mask |-> out2] ELSE PanicResult

code_to_thermometer_trailing(code, bits) ==
    IF ~(code <= bits) THEN PanicResult
    ELSE LET out1 == Resize(<<>>, bits - code, FALSE)
             out2 == Resize(out1, bits, TRUE)
         IN  IF Len(out2) = bits THEN [ok |-> TRUE, mask |-> out2] ELSE PanicResult

\* fn code_to_thermometer: the assertion, the two resizes, the length check
code_to_thermometer(code, bits) ==
    IF ~(code <= bits) THEN PanicResult
    ELSE LET out1 == Resize(<<>>, code, TRUE)
             out2 == Resize(out1, bits, FALSE)
         IN  IF Len(out2) = bits THEN [ok |-> TRUE, mask |-> out2] ELSE PanicResult

\* Decimal division num / den, den > 0, num >= 0
DecDiv(num, den, rnd) ==
    LET q == num \div den
        r == num % den
    IN  IF rnd = "half_up" /\ 2 * r >= den THEN q + 1 ELSE q

RECURSIVE VinGridTo(_, _, _, _)
VinGridTo(v, den, rnd, n) ==
    IF n <= 0 THEN <<>>
    ELSE Append(VinGridTo(v, den, rnd, n - 1), DecDiv(v * (n - 1), den, rnd))

VinGridDivBySweepPoints(v, sp, rnd) == VinGridTo(v, sp, rnd, sp)

\* the first loop of simulate_driver: vin = voltage * i / (sweep_points - 1)
VinGrid(v, sp, rnd) == VinGridTo(v, sp - 1, rnd, sp)

\* the keys of one leg kind in loop order: code in 1..=mask_bits, i in 0..sweep_points
LegKeysFromCodeZero(is_pu, mask_bits, sp) ==
    [k \in 1..(mask_bits * sp) |->
        [is_pu |-> is_pu, code |-> (k - 1) \div sp, i |-> (k - 1) % sp,
         mask_bits |-> mask_bits]]

LegKeysOneCodeTooHigh(is_pu, mask_bits, sp) ==
    [k \in 1..(mask_bits * sp) |->
        [is_pu |-> is_pu, code |-> ((k - 1) \div sp) + 2, i |-> (k - 1) % sp,
         mask_bits |-> mask_bits]]

LegKeys(is_pu, mask_bits, sp) ==
    [k \in 1..(mask_bits * sp) |->
        [is_pu |-> is_pu, code |-> ((k - 1) \div sp) + 1, i |-> (k - 1) % sp,
         mask_bits |-> mask_bits]]

\* for (mask_bits, is_pu) in [(n_pu, true), (n_pd, false)]
JobOrder(npu, npd, sp) == LegKeys(TRUE, npu, sp) \o LegKeys(FALSE, npd, sp)

JobMasksOwnCount(is_pu, var_mask, npu, npd) ==
    IF is_pu
    THEN [pu_mask |-> var_mask, pd_mask |-> Repeat(TRUE, npu), name |-> "pu"]
    ELSE [pu_mask |-> Repeat(TRUE, npd), pd_mask |-> var_mask, name |-> "pd"]

\* the swept kind gets var_mask, the other kind vec![true; n]
JobMasks(is_pu, var_mask, npu, npd) ==
    IF is_pu
    THEN [pu_mask |-> var_mask, pd_mask |-> Repeat(TRUE, npd), name |-> "pu"]
    ELSE [pu_mask |-> Repeat(TRUE, npu), pd_mask |-> var_mask, name |-> "pd"]

\* the two assert_eq! of DriverAcTb::schematic; both signal arrays are
\* created with the length of the DUT's pu_ctl
TbLengthsOk(dut_pu_len, dut_pd_len, pu_mask, pd_mask) ==
    LET pu_ctl_len == dut_pu_len
        pd_ctlb_len == dut_pu_len
    IN  pu_ctl_len = Len(pu_mask) /\ pd_ctlb_len = Len(pd_mask)

\* A complex sample z is <<re, im, d>>, the value (re + j*im) / d, and a real
\* result is the fraction num / den; a zero den is the inf or NaN of f64.
ExtractRRealPart(z) == [num |-> z[1], den |-> z[3]]

\* 1.0 / z is d * (re - j*im) / (re^2 + im^2)
CInv(z) == <<z[3] * z[1], -(z[3] * z[2]), z[1] * z[1] + z[2] * z[2]>>

\* 1.0 / ((1.0 / z).re)
ExtractR(z) == [num |-> CInv(z)[3], den |-> CInv(z)[1]]

ExtractCurve(vout) == [k \in 1..Len(vout) |-> ExtractR(vout[k])]

\* the tuple a job thread returns; arrival is the number of threads that
\* completed before this one, which the closure does not look at
ThreadResultByArrival(job, wave, arrival) ==
    [code |-> job.code, vin_idx |-> arrival % 2, is_pu |-> job.is_pu,
     freq |-> wave.freq, r |-> ExtractCurve(wave.vout)]

ThreadResult(job, wave, arrival) ==
    [code |-> job.code, vin_idx |-> job.i, is_pu |-> job.is_pu,
     freq |-> wave.freq, r |-> ExtractCurve(wave.vout)]

NoWave == [freq |-> <<>>, vout |-> <<>>]

\* what the simulator returns for the testbench of a job when it succeeds: a
\* frequency vector and the complex output voltage <<re, im, 1>> at the same
\* points.  The simulator is outside the repository; it is taken to be a
\* function of the testbench, with a different response for every job.
SimWave(job, mode) ==
    [freq |-> IF mode = "shared_freq" THEN <<1, 10>>
              ELSE <<1, 10 + 2 * job.code + (IF job.is_pu THEN 1 ELSE 0), 100 + job.i>>,
     vout |-> << <<job.code, 0, 1>>, <<1 + job.i, IF job.is_pu THEN 1 ELSE 2, 1>> >>]

NoResult == [code |-> 0, vin_idx |-> 0, is_pu |-> FALSE, freq |-> <<>>, r |-> <<>>]

SweepPointsOkNoLowerBound(sp) == sp >= 0

\* assert!(params.sweep_points >= 2)
SweepPointsOk(sp) == sp >= 2

CanSpawnBelowTwoRunning(ths) ==
    Cardinality({k \in 1..Len(ths) : ths[k].st = "running"}) < 2

\* thread::spawn is called in every iteration, whatever the threads already
\* started are doing
CanSpawn(ths) == TRUE

ThreadOutcomeErrorSwallowed(job, sim_ok, mode, arrival, npu, npd) ==
    IF ~TbLengthsOk(npu, npd, job.pu_mask, job.pd_mask)
    THEN [st |-> "panicked", cause |-> "tb_assert", wave |-> NoWave, ret |-> NoResult]
    ELSE IF ~sim_ok
    THEN [st |-> "ok", cause |-> "sim_err", wave |-> NoWave,
          ret |-> ThreadResult(job, NoWave, arrival)]
    ELSE [st |-> "ok", cause |-> "", wave |-> SimWave(job, mode),
          ret |-> ThreadResult(job, SimWave(job, mode), arrival)]

\* how the closure of a job ends: a panic in the testbench assertions, a
\* panic in expect("failed to run sim"), or the result tuple
ThreadOutcome(job, sim_ok, mode, arrival, npu, npd) ==
    IF ~TbLengthsOk(npu, npd, job.pu_mask, job.pd_mask)
    THEN [st |-> "panicked", cause |-> "tb_assert", wave |-> NoWave, ret |-> NoResult]
    ELSE IF ~sim_ok
    THEN [st |-> "panicked", cause |-> "sim_err", wave |-> NoWave, ret |-> NoResult]
    ELSE [st |-> "ok", cause |-> "", wave |-> SimWave(job, mode),
          ret |-> ThreadResult(job, SimWave(job, mode), arrival)]

NextToJoinFailedFirst(n_joined, ths) ==
    IF \E k \in 1..Len(ths) : ths[k].st = "panicked"
    THEN CHOOSE k \in 1..Len(ths) : ths[k].st = "panicked"
    ELSE n_joined + 1

NextToJoinLastFirst(n_joined, ths) == IF n_joined = 0 THEN Len(ths) ELSE n_joined

NextToJoinFromEnd(n_joined, ths) == Len(ths) - n_joined

PushVinFront(vec, vin) == <<vin>> \o vec

\* vin_swp_vec.push(vin)
PushVin(vec, vin) == Append(vec, vin)

SetFreqKeepFirst(o, freq) == IF o.freq = <<>> THEN [o EXCEPT !.freq = freq] ELSE o

\* out.freq = (*freq).clone()
SetFreq(o, freq) == [o EXCEPT !.freq = freq]

JoinReadyTimedOut(t) == TRUE

\* h.join() blocks, with no timeout, until the thread of the handle has ended
JoinReady(t) == t.st # "running"

\* `for h in handles`: the handles are joined in the order they were pushed
NextToJoin(n_joined, ths) == n_joined + 1

\* ----------------------------------------------------------------- state
VARIABLES
    n_pu, n_pd,        \* control-line counts of the DUT
    sweep_points,      \* params.sweep_points
    voltage,           \* params.pvt.voltage
    sim_mode,          \* which simulator the context runs
    pc,                \* position of simulate_driver
    err,               \* the panic message once pc = "panic"
    vin_swp_vec,       \* the bias vector
    handles,           \* the jobs spawned so far, in dispatch order
    threads,           \* the state of each job thread
    out,               \* the DriverAcSims being assembled
    joined,            \* number of handles joined so far
    wlog,              \* history: the cells written by the join loop
    reordered,         \* history: a job finished before an earlier-dispatched one
    t_pc, t_code, t_bits, t_out, t_prev,  \* a direct call of code_to_thermometer
    tb_dut_pu, tb_dut_pd,      \* widths of dut.io().pu_ctl and dut.io().pd_ctlb
    tb_pu_mask, tb_pd_mask,    \* self.pu_mask and self.pd_mask of a DriverAcTb
    tb_pc, tb_err,             \* position of DriverAcTb::schematic, panic message
    tb_conns,                  \* cell.connect calls on control lines
    tb_res,                    \* the resistors instantiated on control signals
    tb_fstart, tb_fstop,       \* self.fstart and self.fstop of a DriverAcTb
    tb_ac,                     \* the analysis DriverAcTb::run submits
    x_pc, x_vout, x_r,         \* the extraction closure applied to sim.vout
    ro_arg, ro_elem,           \* the arguments of RingOscillator::new
    ro_self,                   \* the RingOscillator built
    ro_pc, ro_err,             \* position in new / schematic, panic message
    ro_i,                      \* loop index of RingOscillator::schematic
    ro_conns,                  \* cell.connect calls of the schematic
    hd_num_segments, hd_banks, \* the DriverParams of a HorizontalDriver
    hd_pu_len, hd_pd_len,      \* widths of io().pu_ctl and io().pd_ctlb
    hd_pc, hd_err,             \* position in io / tile, panic message
    hd_i,                      \* bank loop index of tile
    hd_pu_conns, hd_pd_conns   \* control-port connections made by tile

dvars == <<n_pu, n_pd, sweep_points, voltage, sim_mode, pc, err, vin_swp_vec, handles,
           threads, out, joined, wlog, reordered>>
tvars == <<t_pc, t_code, t_bits, t_out, t_prev>>
bvars == <<tb_dut_pu, tb_dut_pd, tb_pu_mask, tb_pd_mask, tb_pc, tb_err, tb_conns, tb_res,
           tb_fstart, tb_fstop, tb_ac>>
xvars == <<x_pc, x_vout, x_r>>
rvars == <<ro_arg, ro_elem, ro_self, ro_pc, ro_err, ro_i, ro_conns>>
hvars == <<hd_num_segments, hd_banks, hd_pu_len, hd_pd_len, hd_pc, hd_err, hd_i,
           hd_pu_conns, hd_pd_conns>>
pvars == <<xvars, rvars, hvars>>
vars == <<n_pu, n_pd, sweep_points, voltage, sim_mode, pc, err, vin_swp_vec, handles,
          threads, out, joined, wlog, reordered,
          t_pc, t_code, t_bits, t_out, t_prev,
          tb_dut_pu, tb_dut_pd, tb_pu_mask, tb_pd_mask, tb_pc, tb_err, tb_conns, tb_res,
          tb_fstart, tb_fstop, tb_ac,
          x_pc, x_vout, x_r,
          ro_arg, ro_elem, ro_self, ro_pc, ro_err, ro_i, ro_conns,
          hd_num_segments, hd_banks, hd_pu_len, hd_pd_len, hd_pc, hd_err, hd_i,
          hd_pu_conns, hd_pd_conns>>

EmptyOut == [r_pu |-> <<>>, r_pd |-> <<>>, freq |-> <<>>, vin |-> <<>>,
             pu_codes |-> <<>>, pd_codes |-> <<>>]

DriverIdle ==
    /\ n_pu = 0 /\ n_pd = 0 /\ sweep_points = 0 /\ voltage = 0
    /\ sim_mode = "shared_freq"
    /\ pc = "idle" /\ err = "" /\ vin_swp_vec = <<>> /\ handles = <<>>
    /\ threads = <<>> /\ out = EmptyOut /\ joined = 0 /\ wlog = <<>>
    /\ reordered = FALSE

ThermoIdle ==
    /\ t_pc = "idle" /\ t_code = 0 /\ t_bits = 0
    /\ t_out = PanicResult /\ t_prev = PanicResult

\* a Decimal frequency m * 10^e (dec!(1e3) is m = 1, e = 3)
Dec(m, e) == [m |-> m, e |-> e]

NoAc == [start |-> Dec(0, 0), stop |-> Dec(0, 0), sweep |-> <<"none", 0>>,
         errpreset |-> "none"]

TbIdle ==
    /\ tb_dut_pu = 0 /\ tb_dut_pd = 0 /\ tb_pu_mask = <<>> /\ tb_pd_mask = <<>>
    /\ tb_pc = "idle" /\ tb_err = "" /\ tb_conns = {} /\ tb_res = <<>>
    /\ tb_fstart = Dec(0, 0) /\ tb_fstop = Dec(0, 0) /\ tb_ac = NoAc

ExtractIdle == x_pc = "idle" /\ x_vout = <<>> /\ x_r = <<>>

NoRing == [stages |-> 0, element |-> "none"]

RingIdle ==
    /\ ro_arg = 0 /\ ro_elem = "none" /\ ro_self = NoRing
    /\ ro_pc = "idle" /\ ro_err = "" /\ ro_i = 0 /\ ro_conns = {}

HorizIdle ==
    /\ hd_num_segments = 0 /\ hd_banks = 0 /\ hd_pu_len = 0 /\ hd_pd_len = 0
    /\ hd_pc = "idle" /\ hd_err = "" /\ hd_i = 0
    /\ hd_pu_conns = {} /\ hd_pd_conns = {}

\* the blocks outside the driver testbench are not in use
PeripheralIdle == ExtractIdle /\ RingIdle /\ HorizIdle

\* a call of simulate_driver with a DUT, a PVT corner and sweep_points
Init ==
    /\ n_pu \in 0..MaxPu
    /\ n_pd \in 0..MaxPd
    /\ sweep_points \in 0..MaxSweep
    /\ (n_pu + n_pd) * sweep_points <= MaxJobs
    /\ voltage \in Voltages
    /\ sim_mode \in SimModes
    /\ pc = "start" /\ err = "" /\ vin_swp_vec = <<>> /\ handles = <<>>
    /\ threads = <<>> /\ out = EmptyOut /\ joined = 0 /\ wlog = <<>>
    /\ reordered = FALSE
    /\ ThermoIdle
    /\ TbIdle
    /\ PeripheralIdle

\* ------------------------------------------------------- simulate_driver
\* assert!(sweep_points >= 2), the code vectors and the bias grid
Setup ==
    /\ pc = "start"
    /\ IF ~SweepPointsOk(sweep_points)
       THEN /\ pc' = "panic"
            /\ err' = "assertion failed: params.sweep_points >= 2"
            /\ UNCHANGED vin_swp_vec
       ELSE IF sweep_points = 1
       THEN /\ pc' = "panic"
            /\ err' = "Division by zero"
            /\ UNCHANGED vin_swp_vec
       ELSE /\ \E rnd \in RoundModes :
                 vin_swp_vec' = VinGrid(voltage, sweep_points, rnd)
            /\ pc' = "dispatch"
            /\ UNCHANGED err
    /\ UNCHANGED <<n_pu, n_pd, sweep_points, voltage, sim_mode, handles, threads, out,
                   joined, wlog, reordered>>
    /\ UNCHANGED tvars
    /\ UNCHANGED bvars
    /\ UNCHANGED pvars

\* one iteration of the innermost dispatch loop, up to thread::spawn
Dispatch ==
    /\ pc = "dispatch"
    /\ Len(handles) < Len(JobOrder(n_pu, n_pd, sweep_points))
    /\ CanSpawn(threads)
    /\ LET key == JobOrder(n_pu, n_pd, sweep_points)[Len(handles) + 1]
           var_mask == code_to_thermometer(key.code, key.mask_bits)
           m == JobMasks(key.is_pu, var_mask.mask, n_pu, n_pd)
       IN  IF ~var_mask.ok
           THEN /\ pc' = "panic"
                /\ err' = "assertion failed: code <= bits"
                /\ UNCHANGED <<vin_swp_vec, handles, threads>>
           ELSE IF ~(key.i < Len(vin_swp_vec))
           THEN /\ pc' = "panic"
                /\ err' = "index out of bounds"
                /\ UNCHANGED <<vin_swp_vec, handles, threads>>
           ELSE LET vin == vin_swp_vec[key.i + 1]
                IN  /\ vin_swp_vec' = PushVin(vin_swp_vec, vin)
                    /\ handles' = Append(handles,
                           [is_pu |-> key.is_pu, code |-> key.code, i |-> key.i,
                            pu_mask |-> m.pu_mask, pd_mask |-> m.pd_mask,
                            vin |-> vin,
                            sim_dir |-> <<m.name, key.code, vin>>])
                    /\ threads' = Append(threads,
                           [st |-> "running", cause |-> "", wave |-> NoWave,
                            ret |-> NoResult])
                    /\ UNCHANGED <<pc, err>>
    /\ UNCHANGED <<n_pu, n_pd, sweep_points, voltage, sim_mode, out, joined, wlog,
                   reordered>>
    /\ UNCHANGED tvars
    /\ UNCHANGED bvars
    /\ UNCHANGED pvars

\* the DriverAcSims value built once every job is spawned
AllocOut ==
    /\ pc = "dispatch"
    /\ Len(handles) = Len(JobOrder(n_pu, n_pd, sweep_points))
    /\ out' = [r_pu |-> Repeat(Repeat(<<>>, sweep_points), n_pu),
               r_pd |-> Repeat(Repeat(<<>>, sweep_points), n_pd),
               freq |-> <<>>,
               vin |-> vin_swp_vec,
               pu_codes |-> [c \in 1..n_pu |-> c],
               pd_codes |-> [c \in 1..n_pd |-> c]]
    /\ pc' = "join"
    /\ UNCHANGED <<n_pu, n_pd, sweep_points, voltage, sim_mode, err, vin_swp_vec, handles,
                   threads, joined, wlog, reordered>>
    /\ UNCHANGED tvars
    /\ UNCHANGED bvars
    /\ UNCHANGED pvars

\* the closure of job k: build the testbench, simulate, extract
JobRun(k) ==
    /\ pc \in {"dispatch", "join"}
    /\ k \in 1..Len(threads)
    /\ threads[k].st = "running"
    /\ LET job == handles[k]
           arrival == Cardinality({j \in 1..Len(threads) : threads[j].st # "running"})
       IN  \E sim_ok \in BOOLEAN :
             threads' = [threads EXCEPT ![k] =
                ThreadOutcome(job, sim_ok, sim_mode, arrival, n_pu, n_pd)]
    /\ reordered' = (reordered \/ \E j \in 1..(k - 1) : threads[j].st = "running")
    /\ UNCHANGED <<n_pu, n_pd, sweep_points, voltage, sim_mode, pc, err, vin_swp_vec,
                   handles, out, joined, wlog>>
    /\ UNCHANGED tvars
    /\ UNCHANGED bvars
    /\ UNCHANGED pvars

WriteCellSwappedKind(o, ret) ==
    LET rows == IF ret.is_pu THEN o.r_pd ELSE o.r_pu
        row == ret.code - 1
        col == ret.vin_idx
        cell == [is_pu |-> ~ret.is_pu, row |-> row, col |-> col]
    IN  IF row < 0 \/ row >= Len(rows) \/ col >= Len(rows[row + 1])
        THEN [ok |-> FALSE, out |-> o, cell |-> cell]
        ELSE IF ret.is_pu
        THEN [ok |-> TRUE, out |-> [o EXCEPT !.r_pd[row + 1][col + 1] = ret.r], cell |-> cell]
        ELSE [ok |-> TRUE, out |-> [o EXCEPT !.r_pu[row + 1][col + 1] = ret.r], cell |-> cell]

\* out.r_pu[code - 1][vin_idx] = r, or the r_pd twin; ok is FALSE when an
\* index is out of range, cell names the slot assigned
WriteCell(o, ret) ==
    LET rows == IF ret.is_pu THEN o.r_pu ELSE o.r_pd
        row == ret.code - 1
        col == ret.vin_idx
        cell == [is_pu |-> ret.is_pu, row |-> row, col |-> col]
    IN  IF row < 0 \/ row >= Len(rows) \/ col >= Len(rows[row + 1])
        THEN [ok |-> FALSE, out |-> o, cell |-> cell]
        ELSE IF ret.is_pu
        THEN [ok |-> TRUE, out |-> [o EXCEPT !.r_pu[row + 1][col + 1] = ret.r], cell |-> cell]
        ELSE [ok |-> TRUE, out |-> [o EXCEPT !.r_pd[row + 1][col + 1] = ret.r], cell |-> cell]

\* one iteration of `for h in handles`: join, then record
Join ==
    /\ pc = "join"
    /\ joined < Len(handles)
    /\ JoinReady(threads[NextToJoin(joined, threads)])
    /\ LET t == threads[NextToJoin(joined, threads)]
           o1 == SetFreq(out, t.ret.freq)
           w == WriteCell(o1, t.ret)
       IN  IF t.st = "panicked"
           THEN /\ pc' = "panic"
                /\ err' = "thread failed"
                /\ UNCHANGED <<out, joined, wlog>>
           ELSE IF ~w.ok
           THEN /\ pc' = "panic"
                /\ err' = "index out of bounds"
                /\ out' = o1
                /\ UNCHANGED <<joined, wlog>>
           ELSE /\ out' = w.out
                /\ joined' = joined + 1
                /\ wlog' = Append(wlog, [job |-> NextToJoin(joined, threads),
                                         cell |-> w.cell])
                /\ UNCHANGED <<pc, err>>
    /\ UNCHANGED <<n_pu, n_pd, sweep_points, voltage, sim_mode, vin_swp_vec, handles,
                   threads, reordered>>
    /\ UNCHANGED tvars
    /\ UNCHANGED bvars
    /\ UNCHANGED pvars

\* `out` is returned
Return ==
    /\ pc = "join"
    /\ joined = Len(handles)
    /\ pc' = "done"
    /\ UNCHANGED <<n_pu, n_pd, sweep_points, voltage, sim_mode, err, vin_swp_vec, handles,
                   threads, out, joined, wlog, reordered>>
    /\ UNCHANGED tvars
    /\ UNCHANGED bvars
    /\ UNCHANGED pvars

Next ==
    \/ Setup
    \/ Dispatch
    \/ AllocOut
    \/ \E k \in 1..MaxJobs : JobRun(k)
    \/ Join
    \/ Return

Spec == Init /\ [][Next]_vars

\* the calling thread and the job threads are scheduled: while a step of
\* simulate_driver or of a job thread is possible, one is eventually taken
\* Termination does not depend on the data: the supply voltage and the
\* simulator's response are fixed here, every DUT size, sweep size, thread
\* interleaving and simulator failure is kept.
InitLive == Init /\ voltage = 18 /\ sim_mode = "shared_freq"

SpecLive == InitLive /\ [][Next]_vars /\ WF_vars(Next)

\* ---------------------------------------- code_to_thermometer on its own
InitThermo ==
    /\ DriverIdle
    /\ t_pc = "call"
    /\ t_bits \in 0..MaxBits
    /\ t_code \in 0..(MaxBits + 1)
    /\ t_out = PanicResult
    /\ t_prev = PanicResult
    /\ TbIdle
    /\ PeripheralIdle

\* code_to_thermometer(t_code, t_bits) is called
ThermoCall ==
    /\ t_pc = "call"
    /\ t_out' = code_to_thermometer(t_code, t_bits)
    /\ t_pc' = IF t_out'.ok THEN "ret" ELSE "panic"
    /\ UNCHANGED <<t_code, t_bits, t_prev>>
    /\ UNCHANGED dvars
    /\ UNCHANGED bvars
    /\ UNCHANGED pvars

\* after a call that returned, the next code is converted with the same bits
ThermoCallNext ==
    /\ t_pc = "ret"
    /\ t_code <= MaxBits
    /\ t_prev' = t_out
    /\ t_code' = t_code + 1
    /\ t_out' = code_to_thermometer(t_code + 1, t_bits)
    /\ t_pc' = IF t_out'.ok THEN "ret" ELSE "panic"
    /\ UNCHANGED t_bits
    /\ UNCHANGED dvars
    /\ UNCHANGED bvars
    /\ UNCHANGED pvars

NextThermo == ThermoCall \/ ThermoCallNext

SpecThermo == InitThermo /\ [][NextThermo]_vars

\* ------------------------------------------------- DriverAcTb::schematic
BoolSeqs(n) == UNION {[1..k -> BOOLEAN] : k \in 0..n}

MaxMask == IF MaxPu >= MaxPd THEN MaxPu ELSE MaxPd

\* the frequencies a caller passes as fstart and fstop
Freqs == {Dec(1, 3), Dec(1, 6), Dec(50, 9)}

\* a DriverAcTb built around a DUT with tb_dut_pu pull-up and tb_dut_pd
\* pull-down control lines, with any two masks
InitTb ==
    /\ DriverIdle
    /\ ThermoIdle
    /\ tb_dut_pu \in 0..MaxPu
    /\ tb_dut_pd \in 0..MaxPd
    /\ tb_pu_mask \in BoolSeqs(MaxMask)
    /\ tb_pd_mask \in BoolSeqs(MaxMask)
    /\ tb_pc = "new" /\ tb_err = "" /\ tb_conns = {} /\ tb_res = <<>>
    /\ tb_fstart \in Freqs
    /\ tb_fstop \in Freqs
    /\ tb_ac = NoAc
    /\ PeripheralIdle

\* the first loop: DUT line pu_ctl[i] is connected to signal pu_ctl[i], which
\* gets a resistor to vdd if pu_mask[i], to vss otherwise (0-based i)
PuConns(pu_ctl_len) ==
    {[dut |-> <<"pu_ctl", i>>, sig |-> <<"pu_ctl", i>>] : i \in 0..(pu_ctl_len - 1)}

PuResistors(pu_ctl_len, pu_mask) ==
    [k \in 1..pu_ctl_len |->
        [p |-> <<"pu_ctl", k - 1>>, n |-> IF pu_mask[k] THEN "vdd" ELSE "vss"]]

\* the second loop: DUT line pd_ctlb[i] is connected to signal pd_ctlb[i],
\* which gets a resistor to vss if pd_mask[i], to vdd otherwise
PdConns(pd_ctlb_len) ==
    {[dut |-> <<"pd_ctlb", i>>, sig |-> <<"pd_ctlb", i>>] : i \in 0..(pd_ctlb_len - 1)}

PdResistors(pd_ctlb_len, pd_mask) ==
    [k \in 1..pd_ctlb_len |->
        [p |-> <<"pd_ctlb", k - 1>>, n |-> IF pd_mask[k] THEN "vss" ELSE "vdd"]]

\* DriverAcTb::schematic: both control signals are created with the width of
\* dut.io().pu_ctl, the two assert_eq! follow, then the two resistor loops;
\* the second loop indexes dut.io().pd_ctlb with i < pd_ctlb.len()
TbSchematic ==
    /\ tb_pc = "new"
    /\ LET pu_ctl_len == tb_dut_pu
           pd_ctlb_len == tb_dut_pu
       IN  IF ~TbLengthsOk(tb_dut_pu, tb_dut_pd, tb_pu_mask, tb_pd_mask)
           THEN /\ tb_pc' = "panic"
                /\ tb_err' = "assertion failed: left == right"
                /\ UNCHANGED <<tb_conns, tb_res>>
           ELSE IF pd_ctlb_len > tb_dut_pd
           THEN /\ tb_pc' = "panic"
                /\ tb_err' = "index out of bounds"
                /\ tb_conns' = PuConns(pu_ctl_len) \cup PdConns(tb_dut_pd)
                /\ tb_res' = PuResistors(pu_ctl_len, tb_pu_mask)
                                \o PdResistors(tb_dut_pd, tb_pd_mask)
           ELSE /\ tb_pc' = "built"
                /\ tb_err' = ""
                /\ tb_conns' = PuConns(pu_ctl_len) \cup PdConns(pd_ctlb_len)
                /\ tb_res' = PuResistors(pu_ctl_len, tb_pu_mask)
                                \o PdResistors(pd_ctlb_len, tb_pd_mask)
    /\ UNCHANGED <<tb_dut_pu, tb_dut_pd, tb_pu_mask, tb_pd_mask>>
    /\ UNCHANGED <<tb_fstart, tb_fstop, tb_ac>>
    /\ UNCHANGED dvars
    /\ UNCHANGED tvars
    /\ UNCHANGED pvars

\* the Ac analysis built in DriverAcTb::run
AcAnalysis(fstart, fstop) ==
    [start |-> Dec(1, 3), stop |-> Dec(50, 9), sweep |-> <<"decade", 40>>,
     errpreset |-> "conservative"]

\* DriverAcTb::run on the assembled testbench: the analysis is submitted
\* with sim.simulate, and a simulator error panics in
\* expect("failed to run simulation")
TbRun ==
    /\ tb_pc = "built"
    /\ tb_ac' = AcAnalysis(tb_fstart, tb_fstop)
    /\ \E sim_ok \in BOOLEAN :
          IF sim_ok
          THEN tb_pc' = "ran" /\ tb_err' = ""
          ELSE tb_pc' = "panic" /\ tb_err' = "failed to run simulation"
    /\ UNCHANGED <<tb_dut_pu, tb_dut_pd, tb_pu_mask, tb_pd_mask>>
    /\ UNCHANGED <<tb_conns, tb_res, tb_fstart, tb_fstop>>
    /\ UNCHANGED dvars
    /\ UNCHANGED tvars
    /\ UNCHANGED pvars

NextTb == TbSchematic \/ TbRun

SpecTb == InitTb /\ [][NextTb]_vars

\* ------------------------------------------------------ thermometer coder
\* C1: whenever code <= bits, the call returns a mask of length exactly bits
\* whose first code entries are true and whose other entries are false.
C1_MaskShape ==
    (t_pc # "call" /\ t_pc # "idle" /\ t_code <= t_bits) =>
        /\ t_pc = "ret"
        /\ t_out.ok
        /\ Len(t_out.mask) = t_bits
        /\ \A k \in 1..t_bits : t_out.mask[k] = (k <= t_code)

C1_Witness ==
    /\ t_pc = "ret" /\ t_bits = 4 /\ t_code = 2
    /\ t_out.mask = <<TRUE, TRUE, FALSE, FALSE>>

\* C2: the masks of c and c + 1 for the same bits differ in exactly one
\* position, index c, which goes from false to true.
C2_OneMoreLeadingTrue ==
    (t_pc = "ret" /\ t_prev.ok) =>
        LET c == t_code - 1
        IN  /\ Len(t_prev.mask) = Len(t_out.mask)
            /\ c < t_bits
            /\ t_prev.mask[c + 1] = FALSE
            /\ t_out.mask[c + 1] = TRUE
            /\ \A k \in 1..Len(t_out.mask) :
                   k # c + 1 => t_out.mask[k] = t_prev.mask[k]

C2_Witness ==
    /\ t_pc = "ret" /\ t_prev.ok /\ t_bits = 4 /\ t_code = 3
    /\ t_prev.mask = <<TRUE, TRUE, FALSE, FALSE>>
    /\ t_out.mask = <<TRUE, TRUE, TRUE, FALSE>>

\* C3: a call with code > bits ends in the assertion failure and hands back
\* no mask.
C3_CodeAboveBitsPanics ==
    (t_pc # "call" /\ t_pc # "idle" /\ t_code > t_bits) =>
        /\ t_pc = "panic"
        /\ ~t_out.ok
        /\ t_out.mask = <<>>

C3_Witness ==
    /\ t_pc = "panic" /\ t_bits = 4 /\ t_code = 5 /\ ~t_prev.ok

\* --------------------------------------------------------- the dispatcher
KeyOf(h) == <<h.is_pu, h.code, h.i>>

ExpectedKeys ==
    {<<TRUE, c, b>> : c \in 1..n_pu, b \in 0..(sweep_points - 1)}
        \cup {<<FALSE, c, b>> : c \in 1..n_pd, b \in 0..(sweep_points - 1)}

\* the dispatch loops have run to their end
DispatchFinished ==
    \/ pc \in {"join", "done"}
    \/ pc = "panic" /\ err = "thread failed"

\* C4: the jobs dispatched have pairwise different keys, all inside
\* {pullUp, pullDown} x 1..bits x 0..sweepPoints-1 (so none for code 0), and
\* once dispatch has finished every such key has its job:
\* (n_pu + n_pd) * sweepPoints jobs in total.
C4_OneJobPerKey ==
    /\ \A k \in 1..Len(handles) : KeyOf(handles[k]) \in ExpectedKeys
    /\ \A j, k \in 1..Len(handles) :
           KeyOf(handles[j]) = KeyOf(handles[k]) => j = k
    /\ DispatchFinished =>
           /\ {KeyOf(handles[k]) : k \in 1..Len(handles)} = ExpectedKeys
           /\ Len(handles) = (n_pu + n_pd) * sweep_points

C4_Witness ==
    /\ pc = "join" /\ n_pu = 2 /\ n_pd = 1 /\ sweep_points = 2
    /\ Len(handles) = 6

\* C5: in every dispatched job the swept kind's mask is the thermometer mask
\* of the job's code and the other kind's mask is all true, as long as that
\* other kind's control-line count.
C5_OtherKindAllTrue ==
    \A k \in 1..Len(handles) :
        LET h == handles[k]
        IN  IF h.is_pu
            THEN /\ h.pu_mask = code_to_thermometer(h.code, n_pu).mask
                 /\ Len(h.pd_mask) = n_pd
                 /\ \A x \in 1..Len(h.pd_mask) : h.pd_mask[x] = TRUE
            ELSE /\ h.pd_mask = code_to_thermometer(h.code, n_pd).mask
                 /\ Len(h.pu_mask) = n_pu
                 /\ \A x \in 1..Len(h.pu_mask) : h.pu_mask[x] = TRUE

C5_Witness ==
    /\ n_pu = 2 /\ n_pd = 1
    /\ \E k \in 1..Len(handles) :
          /\ handles[k].is_pu /\ handles[k].code = 1
          /\ handles[k].pu_mask = <<TRUE, FALSE>>
          /\ handles[k].pd_mask = <<TRUE>>
    /\ \E k \in 1..Len(handles) :
          /\ ~handles[k].is_pu
          /\ handles[k].pu_mask = <<TRUE, TRUE>>
          /\ handles[k].pd_mask = <<TRUE>>

\* C6: the bias of a job with bias index i is the Decimal quotient
\* voltage * i / (sweepPoints - 1): within one Decimal step of the exact
\* quotient, 0 at index 0 and exactly the supply voltage at index
\* sweepPoints - 1 (0, 0.9, 1.8 for three points at 1.8), whatever the leg
\* kind and code and however many entries were appended to the vector since.
C6_BiasOfJob ==
    \A k \in 1..Len(handles) :
        LET h == handles[k]
            d == sweep_points - 1
            diff == h.vin * d - voltage * h.i
        IN  /\ diff < d /\ -diff < d
            /\ h.i = 0 => h.vin = 0
            /\ h.i = d => h.vin = voltage
            /\ (sweep_points = 3 /\ voltage = 18) => h.vin = 9 * h.i

C6_Witness ==
    /\ sweep_points = 3 /\ voltage = 18 /\ Len(handles) = 6
    /\ handles[4].vin = 0 /\ handles[5].vin = 9 /\ handles[6].vin = 18
    /\ ~handles[5].is_pu
    /\ Len(vin_swp_vec) > sweep_points

\* ------------------------------------------------------- the result table
RowLengthsAre(rows, n) == \A x \in 1..Len(rows) : Len(rows[x]) = n

\* C7: in a completed run the returned bias vector has exactly sweepPoints
\* entries, the second dimension of r_pu and r_pd.
C7_BiasVectorLength ==
    pc = "done" =>
        /\ Len(out.vin) = sweep_points
        /\ RowLengthsAre(out.r_pu, Len(out.vin))
        /\ RowLengthsAre(out.r_pd, Len(out.vin))

\* the table entry of the job with key (is_pu, code, i)
Slot(o, h) ==
    IF h.is_pu THEN o.r_pu[h.code][h.i + 1] ELSE o.r_pd[h.code][h.i + 1]

\* C8: with at least one control line of each kind, a run whose simulator
\* calls all succeed does not fail, and when it has completed r_pu has n_pu
\* rows and r_pd n_pd rows of sweepPoints entries, each the curve of its job.
C8_CompletesWithFullTable ==
    (n_pu >= 1 /\ n_pd >= 1 /\ sweep_points >= 2
        /\ \A k \in 1..Len(threads) : threads[k].cause # "sim_err") =>
        /\ pc # "panic"
        /\ pc = "done" =>
              /\ Len(out.r_pu) = n_pu /\ RowLengthsAre(out.r_pu, sweep_points)
              /\ Len(out.r_pd) = n_pd /\ RowLengthsAre(out.r_pd, sweep_points)
              /\ \A k \in 1..Len(handles) :
                     Slot(out, handles[k]) = threads[k].ret.r

\* the table cells of the run
Cells ==
    {[is_pu |-> TRUE, row |-> r, col |-> c] :
        r \in 0..(n_pu - 1), c \in 0..(sweep_points - 1)}
    \cup {[is_pu |-> FALSE, row |-> r, col |-> c] :
        r \in 0..(n_pd - 1), c \in 0..(sweep_points - 1)}

\* C9: no cell is written twice, every write goes to the cell
\* (legKind, code - 1, biasIndex) of the job it comes from, never to a cell
\* of the other kind, and in a completed run every cell has been written.
C9_EachCellWrittenOnce ==
    /\ \A e, f \in 1..Len(wlog) : wlog[e].cell = wlog[f].cell => e = f
    /\ \A e \in 1..Len(wlog) :
           LET h == handles[wlog[e].job]
           IN  wlog[e].cell = [is_pu |-> h.is_pu, row |-> h.code - 1, col |-> h.i]
    /\ pc = "done" => {wlog[e].cell : e \in 1..Len(wlog)} = Cells

C9_Witness ==
    /\ pc = "done" /\ n_pu = 2 /\ n_pd = 2 /\ sweep_points = 2
    /\ Len(wlog) = 8

\* C10: in a completed run the slot of every job holds the curve extracted
\* from that job's own simulator output, in whatever order the jobs finished.
C10_SlotFromOwnJob ==
    pc = "done" =>
        \A k \in 1..Len(handles) :
            Slot(out, handles[k]) =
                ExtractCurve(SimWave(handles[k], sim_mode).vout)

\* a completed 2 x 2 run in which some job finished before a job dispatched
\* earlier
C10_Witness ==
    /\ pc = "done" /\ reordered /\ n_pu = 2 /\ n_pd = 2
    /\ Slot(out, handles[1]) # Slot(out, handles[2])
    /\ Slot(out, handles[3]) # Slot(out, handles[7])

\* C11: simulate_driver called with sweep_points < 2 fails on the
\* assertion sweep_points >= 2 before any job thread is spawned and before
\* any simulation is submitted: once the function has taken its first step
\* it is in the panicked state with that assertion's message, and no handle
\* and no thread exists.
C11_SweepPointsBelowTwoPanicsBeforeDispatch ==
    (sweep_points < 2 /\ pc # "start")
        => /\ pc = "panic"
           /\ err = "assertion failed: params.sweep_points >= 2"
           /\ handles = <<>>
           /\ threads = <<>>

C11_Witness ==
    /\ sweep_points = 1
    /\ n_pu + n_pd > 0
    /\ pc = "panic"
    /\ err = "assertion failed: params.sweep_points >= 2"
    /\ threads = <<>>

\* The run has failed on one of the precondition assertions: the
\* sweep_points assertion of simulate_driver, or a mask-length assertion of
\* DriverAcTb::schematic that the join loop turned into "thread failed".
PreconditionFailure ==
    /\ pc = "panic"
    /\ \/ err = "assertion failed: params.sweep_points >= 2"
       \/ /\ err = "thread failed"
          /\ threads[NextToJoin(joined, threads)].cause = "tb_assert"

\* C12: every precondition violation of a characterization run is detected
\* before any job is dispatched: in a run that has failed with a
\* precondition violation no job thread has been started.
C12_PreconditionFailureBeforeDispatch ==
    PreconditionFailure => threads = <<>>

\* C13: assembling a DriverAcTb for a DUT with tb_dut_pu pull-up and
\* tb_dut_pd pull-down control lines passes the length checks exactly when
\* pu_mask has tb_dut_pu entries and pd_mask has tb_dut_pd entries, and
\* otherwise fails on an assertion; masks of lengths (n_pu, n_pd) are
\* accepted also when n_pu differs from n_pd.
C13_LengthChecksMatchDut ==
    (tb_pc \in {"built", "panic"})
        => ((tb_err # "assertion failed: left == right")
               <=> (Len(tb_pu_mask) = tb_dut_pu /\ Len(tb_pd_mask) = tb_dut_pd))

\* the resistors of the testbench that hang on the signal a DUT control line
\* is connected to
ResistorsOn(line) ==
    {k \in 1..Len(tb_res) :
        \E c \in tb_conns : c.dut = line /\ c.sig = tb_res[k].p}

\* DUT control line `line` is terminated by exactly one resistor, to `supply`
TerminatedTo(line, supply) ==
    /\ Cardinality(ResistorsOn(line)) = 1
    /\ \A k \in ResistorsOn(line) : tb_res[k].n = supply

\* C14: in an assembled DriverAcTb every pull-up control line i of the DUT
\* is terminated by exactly one resistor, to vdd if pu_mask[i] and to ground
\* otherwise, and every pull-down control line i of the DUT is terminated by
\* exactly one resistor, to ground if pd_mask[i] and to vdd otherwise; no
\* control line of the DUT is left unterminated.
C14_EveryControlLineTerminated ==
    (tb_pc = "built")
        => /\ \A i \in 0..(tb_dut_pu - 1) :
                /\ i + 1 \in DOMAIN tb_pu_mask
                /\ TerminatedTo(<<"pu_ctl", i>>,
                                IF tb_pu_mask[i + 1] THEN "vdd" ELSE "vss")
           /\ \A i \in 0..(tb_dut_pd - 1) :
                /\ i + 1 \in DOMAIN tb_pd_mask
                /\ TerminatedTo(<<"pd_ctlb", i>>,
                                IF tb_pd_mask[i + 1] THEN "vss" ELSE "vdd")

\* C15: if the simulator reports failure for a job, or a job thread ends
\* abnormally, simulate_driver returns no result, not even a partial one
\* (it never reaches its return), and the failed job is not submitted
\* again (no second handle carries the failed job's key).
C15_FailedJobMeansNoResult ==
    \A k \in 1..Len(threads) :
        (threads[k].cause # "")
            => /\ pc # "done"
               /\ \A j \in 1..Len(handles) :
                    (j # k) => KeyOf(handles[j]) # KeyOf(handles[k])

C15_Witness ==
    /\ pc = "panic"
    /\ err = "thread failed"
    /\ threads[joined + 1].cause = "sim_err"
    /\ joined >= 1
    /\ wlog # <<>>
    /\ \A k \in 1..Len(threads) : threads[k].st # "running"

\* C16 as stated: when a job fails the run fails immediately, without
\* simulate_driver first waiting for another job that is still running: it
\* is never blocked in the join loop on a running job while some job has
\* already failed.
C16_FailsWithoutWaiting ==
    ~ /\ pc = "join"
      /\ joined < Len(handles)
      /\ threads[NextToJoin(joined, threads)].st = "running"
      /\ \E k \in 1..Len(threads) : threads[k].st = "panicked"

\* C16, amended: a job's failure is raised when the join loop reaches that
\* job. A run that failed with "thread failed" has joined every job
\* dispatched before the failed one, all of them finished successfully, and
\* once the loop has reached a failed job the failure is raised whatever
\* the jobs dispatched after it are doing.
C16_FailsWhenJoinReachesFailedJob ==
    /\ (pc = "panic" /\ err = "thread failed")
          => /\ threads[joined + 1].st = "panicked"
             /\ \A j \in 1..joined : threads[j].st = "ok"
    /\ (pc = "join" /\ joined < Len(handles)
           /\ threads[joined + 1].st = "panicked")
          => ENABLED Join

C16_Witness ==
    /\ pc = "panic"
    /\ err = "thread failed"
    /\ joined >= 1
    /\ threads[joined + 1].st = "panicked"
    /\ \E j \in (joined + 2)..Len(threads) : threads[j].st = "running"

\* C17 as stated: the result table is written only after all jobs have
\* completed: in no reachable state has a slot of r_pu or r_pd, or the
\* frequency vector, been written while a dispatched job is still running.
C17_WrittenAfterAllJobsCompleted ==
    (wlog # <<>> \/ out.freq # <<>>)
        => \A k \in 1..Len(threads) : threads[k].st # "running"

\* C17, amended: the result table is written only by the join loop, after
\* every job has been dispatched, and a slot (and the frequency vector) is
\* written only once the job that produced it and every job dispatched
\* before it have completed successfully; jobs dispatched later may still
\* be running.
C17_WrittenAfterOwnAndEarlierJobs ==
    /\ (wlog # <<>> \/ out.freq # <<>>)
          => /\ pc \in {"join", "panic", "done"}
             /\ Len(handles) = Len(JobOrder(n_pu, n_pd, sweep_points))
             /\ joined >= 1
    /\ \A e \in 1..Len(wlog) :
          \A j \in 1..wlog[e].job : threads[j].st = "ok"

C17_Witness ==
    /\ pc = "join"
    /\ wlog # <<>>
    /\ out.freq # <<>>
    /\ \E k \in 1..Len(threads) : threads[k].st = "running"

\* C18: every job runs on its own thread and the dispatcher places no bound
\* on concurrency: each handle has its own thread, all (n_pu + n_pd) *
\* sweep_points jobs are spawned before the dispatcher waits for any of
\* them, and while jobs remain to be spawned the next spawn is possible
\* with every job started so far still running (no start waits for a
\* completion).
C18_UnboundedOwnThreads ==
    /\ Len(threads) = Len(handles)
    /\ (pc = "join" \/ joined > 0)
          => Len(handles) = (n_pu + n_pd) * sweep_points
    /\ (pc = "dispatch" /\ Len(handles) < (n_pu + n_pd) * sweep_points
           /\ \A k \in 1..Len(threads) : threads[k].st = "running")
          => ENABLED Dispatch

\* all jobs of a run with two pull-up and two pull-down codes are running at
\* once when the dispatcher starts to wait
C18_Witness ==
    /\ pc = "join"
    /\ joined = 0
    /\ n_pu = 2 /\ n_pd = 2
    /\ Len(threads) = (n_pu + n_pd) * sweep_points
    /\ \A k \in 1..Len(threads) : threads[k].st = "running"

\* C19: any two jobs of one run with different keys (leg kind, code, bias
\* index) are given different working subdirectories, for every PVT voltage
\* (0 included) and every sweep_points >= 2.
C19_DistinctSimDirs ==
    \A j, k \in 1..Len(handles) :
        (KeyOf(handles[j]) # KeyOf(handles[k]))
            => handles[j].sim_dir # handles[k].sim_dir

\* C20: if two jobs of the same run return different frequency vectors the
\* Aggregator reports a fault (the run fails) instead of silently keeping
\* one of them: once two joined jobs have returned different frequency
\* vectors the run is in the failed state.
C20_FreqDivergenceReported ==
    (\E j, k \in 1..joined : threads[j].ret.freq # threads[k].ret.freq)
        => pc = "panic"

\* C21: the AC analysis a DriverAcTb submits to the simulator sweeps from
\* the testbench's fstart to its fstop, logarithmically at 40 points per
\* decade with the conservative error preset, for every fstart and fstop.
C21_AcSweepsFstartToFstop ==
    (tb_ac # NoAc)
        => /\ tb_ac.start = tb_fstart
           /\ tb_ac.stop = tb_fstop
           /\ tb_ac.sweep = <<"decade", 40>>
           /\ tb_ac.errpreset = "conservative"

\* ------------------------------------------------- resistance extraction
\* the impedance of an ideal parallel R-C network with admittance
\* 1/R + j*B (B = w*C): Z = R * (1 - j*B*R) / (1 + (B*R)^2)
RcImpedance(R, B) == <<R, -(B * R * R), 1 + B * B * R * R>>

Samples ==
    {<<re, im, 1>> : re \in (-MaxZ)..MaxZ, im \in (-MaxZ)..MaxZ}
        \cup {RcImpedance(R, B) : R \in 1..MaxR, B \in 0..MaxB}

\* sim.vout of a finished simulation, any samples
InitExtract ==
    /\ DriverIdle
    /\ ThermoIdle
    /\ TbIdle
    /\ RingIdle
    /\ HorizIdle
    /\ x_pc = "call"
    /\ x_vout \in UNION {[1..n -> Samples] : n \in 0..MaxSamples}
    /\ x_r = <<>>

\* sim.vout.iter().map(|&z| 1.0 / ((1.0 / z).re)).collect()
ExtractCall ==
    /\ x_pc = "call"
    /\ x_r' = ExtractCurve(x_vout)
    /\ x_pc' = "done"
    /\ UNCHANGED x_vout
    /\ UNCHANGED dvars
    /\ UNCHANGED tvars
    /\ UNCHANGED bvars
    /\ UNCHANGED rvars
    /\ UNCHANGED hvars

NextExtract == ExtractCall

SpecExtract == InitExtract /\ [][NextExtract]_vars

\* C22: the resistance curve has one value per impedance sample, in the
\* same order; the value r for the sample Z = (re + j*im)/d satisfies
\* r * Re(1/Z) = 1 with Re(1/Z) = d*re / (re^2 + im^2); and for the
\* impedance of an ideal parallel R-C network the value is R whatever the
\* susceptance is.
C22_ResistanceIsInverseOfRealAdmittance ==
    (x_pc = "done")
        => /\ Len(x_r) = Len(x_vout)
           /\ \A k \in 1..Len(x_vout) :
                LET z == x_vout[k]
                    r == x_r[k]
                IN  /\ r.num * (z[3] * z[1]) = r.den * (z[1] * z[1] + z[2] * z[2])
                    /\ (z[1] # 0) => r.den # 0
                    /\ \A R \in 1..MaxR, B \in 0..MaxB :
                          (z = RcImpedance(R, B))
                              => (r.den # 0 /\ r.num = R * r.den)

\* two R-C samples with different susceptance and different R: the values
\* are the two R in order, and the second differs from Re(Z)
C22_Witness ==
    /\ x_pc = "done"
    /\ Len(x_vout) = 2
    /\ x_vout[1] = RcImpedance(2, 1)
    /\ x_vout[2] = RcImpedance(3, 2)
    /\ x_r[1].num = 2 * x_r[1].den
    /\ x_r[2].num = 3 * x_r[2].den
    /\ x_r[2].num * x_vout[2][3] # x_r[2].den * x_vout[2][1]

\* ------------------------------------------------------- RingOscillator
\* the delay cells a ring is built from: the one of the repository and any
\* other block with a DelayCellIo
Elements == {"CurrentStarvedInverter", "delay_cell"}

\* RingOscillator::new(stages, element) is called
InitRing ==
    /\ DriverIdle
    /\ ThermoIdle
    /\ TbIdle
    /\ ExtractIdle
    /\ HorizIdle
    /\ ro_arg \in 0..MaxStages
    /\ ro_elem \in Elements
    /\ ro_self = NoRing
    /\ ro_pc = "new" /\ ro_err = "" /\ ro_i = 0 /\ ro_conns = {}

StagesOkNonZero(stages) == stages > 0

\* assert_eq!(stages % 2, 1, ...)
StagesOk(stages) == stages % 2 = 1

RingNew ==
    /\ ro_pc = "new"
    /\ IF StagesOk(ro_arg)
       THEN /\ ro_self' = [stages |-> ro_arg, element |-> ro_elem]
            /\ ro_pc' = "built"
            /\ ro_err' = ""
       ELSE /\ ro_pc' = "panic"
            /\ ro_err' = "ring oscillator must have an odd number of stages"
            /\ UNCHANGED ro_self
    /\ UNCHANGED <<ro_arg, ro_elem, ro_i, ro_conns>>
    /\ UNCHANGED <<dvars, tvars, bvars, xvars, hvars>>

\* the head of schematic: the nodes array and
\* cell.connect(nodes[self.stages - 1], io.out)
RingSchematicBegin ==
    /\ ro_pc = "built"
    /\ ro_conns' = {<<<<"nodes", ro_self.stages - 1>>, <<"io", "out">>>>}
    /\ ro_i' = 0
    /\ ro_pc' = "loop"
    /\ UNCHANGED <<ro_arg, ro_elem, ro_self, ro_err>>
    /\ UNCHANGED <<dvars, tvars, bvars, xvars, hvars>>

StageInputOwnOutput(i, stages) == IF i = 0 THEN 0 ELSE i - 1

\* the index of the node a stage takes as input
StageInput(i, stages) == IF i = 0 THEN stages - 1 ELSE i - 1

\* one iteration of the loop: element i is instantiated and its four ports
\* are connected; the function returns after the last iteration
RingStage ==
    /\ ro_pc = "loop"
    /\ ro_i < ro_self.stages
    /\ ro_conns' = ro_conns \cup
          { <<<<"elt", ro_i, "pwr">>, <<"io", "pwr">>>>,
            <<<<"elt", ro_i, "input">>, <<"nodes", StageInput(ro_i, ro_self.stages)>>>>,
            <<<<"elt", ro_i, "output">>, <<"nodes", ro_i>>>>,
            <<<<"elt", ro_i, "tune">>, <<"io", "tune">>>> }
    /\ ro_i' = ro_i + 1
    /\ ro_pc' = IF ro_i + 1 = ro_self.stages THEN "done" ELSE "loop"
    /\ UNCHANGED <<ro_arg, ro_elem, ro_self, ro_err>>
    /\ UNCHANGED <<dvars, tvars, bvars, xvars, hvars>>

NextRing == RingNew \/ RingSchematicBegin \/ RingStage

SpecRing == InitRing /\ [][NextRing]_vars

\* C23: RingOscillator::new(stages, element) fails on its assertion for
\* every even stages, 0 included, and for every odd stages builds the
\* oscillator with exactly that stage count and that element.
C23_OnlyOddStagesAccepted ==
    (ro_pc \notin {"idle", "new"})
        => IF ro_arg % 2 = 0
           THEN /\ ro_pc = "panic"
                /\ ro_err = "ring oscillator must have an odd number of stages"
                /\ ro_self = NoRing
           ELSE /\ ro_pc # "panic"
                /\ ro_self = [stages |-> ro_arg, element |-> ro_elem]

C23_Witness ==
    /\ ro_arg = 0
    /\ ro_pc = "panic"
    /\ ro_err = "ring oscillator must have an odd number of stages"

\* no job thread has panicked: every simulator call made so far returned
\* successfully
NoJobFailed == \A k \in 1..Len(threads) : threads[k].st # "panicked"

RoPinOn(i, port, net) == <<<<"elt", i, port>>, net>> \in ro_conns

\* the output node of stage i is the input node of stage j
RoDrives(i, j) ==
    \E k \in 0..(ro_self.stages - 1) :
        RoPinOn(i, "output", <<"nodes", k>>) /\ RoPinOn(j, "input", <<"nodes", k>>)

\* the stage whose input is the output node of stage i
RoSucc(i) == CHOOSE j \in 0..(ro_self.stages - 1) : RoDrives(i, j)

\* the stages visited from stage i along k input-to-output links
RoPath(i, k) == [m \in 0..k |-> (i + m) % ro_self.stages]

\* C25: the schematic of a RingOscillator with n stages is one closed
\* ring: each port of each stage is on exactly one net, stage i >= 1 takes
\* the output node of stage i-1 as input and stage 0 that of stage n-1, the
\* oscillator output is the output node of stage n-1, all stages share the
\* tune and power nets, and the walk along input-to-output links from any
\* stage visits all n stages and is back at its start after n links.
C25_SingleClosedRing ==
    (ro_pc = "done")
        => LET n == ro_self.stages
               St == 0..(n - 1)
           IN  /\ {c[1][2] : c \in {d \in ro_conns : d[1][1] = "elt"}} = St
               /\ \A i \in St, port \in {"input", "output", "tune", "pwr"} :
                    Cardinality({c \in ro_conns : c[1] = <<"elt", i, port>>}) = 1
               /\ \A i \in St :
                    /\ RoPinOn(i, "output", <<"nodes", i>>)
                    /\ RoPinOn(i, "tune", <<"io", "tune">>)
                    /\ RoPinOn(i, "pwr", <<"io", "pwr">>)
                    /\ \A j \in St : RoDrives(j, i) <=> (j = (i + n - 1) % n)
               /\ <<<<"nodes", n - 1>>, <<"io", "out">>>> \in ro_conns
               /\ \A i \in St :
                    /\ \A m \in 0..(n - 1) :
                          RoSucc(RoPath(i, n)[m]) = RoPath(i, n)[m + 1]
                    /\ RoPath(i, n)[n] = i
                    /\ {RoPath(i, n)[m] : m \in 0..(n - 1)} = St

\* the ring of seven current-starved inverters of the period test
C25_Witness ==
    /\ ro_pc = "done"
    /\ ro_self = [stages |-> 7, element |-> "CurrentStarvedInverter"]
    /\ RoDrives(6, 0)
    /\ RoSucc(6) = 0
    /\ RoSucc(3) = 4

\* ------------------------------------------------------ HorizontalDriver
\* a HorizontalDriver with any number of segments and banks
InitHoriz ==
    /\ DriverIdle
    /\ ThermoIdle
    /\ TbIdle
    /\ ExtractIdle
    /\ RingIdle
    /\ hd_num_segments \in 0..MaxSegments
    /\ hd_banks \in 0..MaxBanks
    /\ hd_pu_len = 0 /\ hd_pd_len = 0
    /\ hd_pc = "io" /\ hd_err = "" /\ hd_i = 0
    /\ hd_pu_conns = {} /\ hd_pd_conns = {}

\* HorizontalDriver::io: both control arrays have num_segments * banks ports
HorizIo ==
    /\ hd_pc = "io"
    /\ hd_pu_len' = hd_num_segments * hd_banks
    /\ hd_pd_len' = hd_num_segments * hd_banks
    /\ hd_pc' = IF hd_banks = 0 THEN "done" ELSE "tile"
    /\ UNCHANGED <<hd_num_segments, hd_banks, hd_err, hd_i, hd_pu_conns, hd_pd_conns>>
    /\ UNCHANGED <<dvars, tvars, bvars, xvars, rvars>>

PortIndexNoStride(num_segments, i, j) == i + j

\* the top-level port that segment j of bank i is connected to
PortIndex(num_segments, i, j) == num_segments * i + j

\* one iteration of the bank loop of tile: bank i is generated and each of
\* its num_segments control ports is connected to a port of the driver's io
HorizBank ==
    /\ hd_pc = "tile"
    /\ hd_i < hd_banks
    /\ LET Segs == 0..(hd_num_segments - 1)
           idx(j) == PortIndex(hd_num_segments, hd_i, j)
       IN  IF \E j \in Segs : idx(j) >= hd_pu_len \/ idx(j) >= hd_pd_len
           THEN /\ hd_pc' = "panic"
                /\ hd_err' = "index out of bounds"
                /\ UNCHANGED <<hd_i, hd_pu_conns, hd_pd_conns>>
           ELSE /\ hd_pu_conns' = hd_pu_conns \cup {<<<<hd_i, j>>, idx(j)>> : j \in Segs}
                /\ hd_pd_conns' = hd_pd_conns \cup {<<<<hd_i, j>>, idx(j)>> : j \in Segs}
                /\ hd_i' = hd_i + 1
                /\ hd_pc' = IF hd_i + 1 = hd_banks THEN "done" ELSE "tile"
                /\ UNCHANGED hd_err
    /\ UNCHANGED <<hd_num_segments, hd_banks, hd_pu_len, hd_pd_len>>
    /\ UNCHANGED <<dvars, tvars, bvars, xvars, rvars>>

NextHoriz == HorizIo \/ HorizBank

SpecHoriz == InitHoriz /\ [][NextHoriz]_vars

\* `conns` connects every port below `len` to exactly one bank segment,
\* segment k mod num_segments of bank k div num_segments, and every bank
\* segment to exactly one port
PortsBijective(conns, len) ==
    /\ \A k \in 0..(len - 1) :
          {c[1] : c \in {d \in conns : d[2] = k}}
              = {<<k \div hd_num_segments, k % hd_num_segments>>}
    /\ \A i \in 0..(hd_banks - 1), j \in 0..(hd_num_segments - 1) :
          {c[2] : c \in {d \in conns : d[1] = <<i, j>>}}
              = {hd_num_segments * i + j}
    /\ Cardinality(conns) = len

\* C26: a HorizontalDriver with num_segments segments and banks banks has
\* exactly num_segments * banks pull-up and as many pull-down control
\* ports, and after tile port k is connected to exactly one bank segment,
\* segment j of bank i with k = num_segments * i + j: the mapping is a
\* bijection, no port is unconnected and no two segments share a port.
C26_ControlPortsBijective ==
    /\ (hd_pc \notin {"idle", "io"})
          => /\ hd_pu_len = hd_num_segments * hd_banks
             /\ hd_pd_len = hd_num_segments * hd_banks
             /\ hd_pc # "panic"
    /\ (hd_pc = "done")
          => /\ PortsBijective(hd_pu_conns, hd_pu_len)
             /\ PortsBijective(hd_pd_conns, hd_pd_len)

C26_Witness ==
    /\ hd_pc = "done"
    /\ hd_num_segments = 3 /\ hd_banks = 2
    /\ hd_pu_len = 6
    /\ <<<<1, 1>>, 4>> \in hd_pu_conns
    /\ <<<<1, 2>>, 5>> \in hd_pd_conns

C28_FreqOfLastDispatchedJob ==
    (pc = "done")
        => IF handles = <<>>
           THEN n_pu = 0 /\ n_pd = 0 /\ out.freq = <<>>
           ELSE /\ out.freq = threads[Len(threads)].ret.freq
                /\ out.freq = SimWave(handles[Len(handles)], sim_mode).freq
                /\ KeyOf(handles[Len(handles)]) = <<FALSE, n_pd, sweep_points - 1>>

\* every job returned its own frequency vector and the last dispatched job
\* was not the last to complete
C28_Witness ==
    /\ pc = "done"
    /\ sim_mode = "job_freq"
    /\ n_pu = 2 /\ n_pd = 2 /\ sweep_points = 2
    /\ reordered
    /\ out.freq = threads[8].ret.freq
    /\ \A k \in 1..7 : threads[k].ret.freq # out.freq

\* handle j was dispatched before handle k in loop order: pull-up before
\* pull-down, then by code, then by bias index
LoopOrderBefore(a, b) ==
    \/ a.is_pu /\ ~b.is_pu
    \/ a.is_pu = b.is_pu /\ a.code < b.code
    \/ a.is_pu = b.is_pu /\ a.code = b.code /\ a.i < b.i

\* C29: simulate_driver joins its jobs in dispatch order (pull-up jobs by
\* code then bias index, then pull-down jobs): the e-th result recorded is
\* that of the e-th dispatched job, written to that job's own slot, so job
\* k is recorded after jobs 0..k-1; and a "thread failed" is raised for
\* job k only when every earlier-dispatched job has completed successfully
\* and been recorded.
C29_JoinsInDispatchOrder ==
    /\ \A j, k \in 1..Len(handles) :
          (j < k) => LoopOrderBefore(handles[j], handles[k])
    /\ Len(wlog) = joined
    /\ \A e \in 1..Len(wlog) :
          /\ wlog[e].job = e
          /\ wlog[e].cell = [is_pu |-> handles[e].is_pu, row |-> handles[e].code - 1,
                             col |-> handles[e].i]
    /\ (pc = "panic" /\ err = "thread failed")
          => /\ joined < Len(threads)
             /\ threads[joined + 1].st = "panicked"
             /\ \A j \in 1..joined : threads[j].st = "ok"

\* job 2 (0-based) failed, its failure was raised after jobs 0 and 1 were
\* joined and recorded, out of completion order, with later jobs running
C29_Witness ==
    /\ pc = "panic"
    /\ err = "thread failed"
    /\ joined = 2
    /\ Len(wlog) = 2
    /\ threads[3].cause = "sim_err"
    /\ reordered
    /\ \A j \in 4..Len(threads) : threads[j].st = "running"
    /\ Len(threads) >= 4

\* C30: within simulate_driver the assertion of code_to_thermometer never
\* fails and no index is out of range: a run only ever fails on the
\* sweep_points assertion or on a failed job thread; every job dispatched
\* has 1 <= code <= bits of its leg and a bias index below sweep_points,
\* which is below the length of the bias vector at every read; and every
\* aggregation write goes to row code - 1 < n_pu (or n_pd) and column
\* bias index < sweep_points.
C30_NoAssertionNoIndexFailure ==
    /\ (pc = "panic")
          => err \in {"assertion failed: params.sweep_points >= 2", "thread failed"}
    /\ (pc \in {"dispatch", "join", "done"})
          => sweep_points >= 2 /\ sweep_points <= Len(vin_swp_vec)
    /\ \A k \in 1..Len(handles) :
          LET h == handles[k]
              bits == IF h.is_pu THEN n_pu ELSE n_pd
          IN  /\ 1 <= h.code /\ h.code <= bits
              /\ 0 <= h.i /\ h.i < sweep_points
              /\ code_to_thermometer(h.code, bits).ok
    /\ \A e \in 1..Len(wlog) :
          LET c == wlog[e].cell
          IN  /\ 0 <= c.row /\ c.row < (IF c.is_pu THEN n_pu ELSE n_pd)
              /\ c.row < Len(IF c.is_pu THEN out.r_pu ELSE out.r_pd)
              /\ 0 <= c.col /\ c.col < sweep_points

\* the last job of the largest completed run writes the last cell of r_pd
C30_Witness ==
    /\ pc = "done"
    /\ n_pu = 2 /\ n_pd = 2 /\ sweep_points = 2
    /\ Len(wlog) = 8
    /\ wlog[8].cell = [is_pu |-> FALSE, row |-> 1, col |-> 1]
    /\ handles[8].code = 2 /\ handles[8].i = 1

====
